---- MODULE Spec2Model ----
(***************************************************************************)
(* Model of the waitlist engine of sistemaRestaurante.py: the class        *)
(* RestaurantWaitlist (a singly linked list of Node objects plus a         *)
(* dictionary of free tables per size).  Every method of the class is one  *)
(* action; the value a method returns is kept in the variable ret.         *)
(***************************************************************************)
EXTENDS Integers, Sequences, FiniteSets, TLC

(* ---------------------------- bounds ----------------------------------- *)
\* longest waitlist the model builds
MaxQueue == 3
\* number of Node objects the model creates
MaxNodes == 4
\* free_table raises a count at most this far above its initial value
MaxExtraFree == 1
\* largest free count of the inventories the read operations are applied to
MaxCount == 3
\* add_client and free_table calls the caller's record follows (HistSpec)
HistMaxAdds == 3
HistMaxFrees == 1
\* add_client calls and free tables per size under fair calling (FairSpec)
FairMaxAdds == 3
FairMaxFree == 1

(* ---------------------------- inputs ----------------------------------- *)
\* client names typed by the caller (duplicates are possible)
Names == {"Ana", "Bob"}
\* party sizes: fits a larger table (3 -> 4), exact fit (6), no fit (7)
PartySizes == {3, 6, 7}
\* reservation time, an opaque string
Times == {"19:00"}
\* table sizes handed to free_table; 3 is not a key of tables
FreeSizes == {2, 3, 4, 6}
\* party sizes handed to estimate_wait_time
QuerySizes == {2, 3, 6, 7}

(* ---------------------------- constants -------------------------------- *)
wait_time_per_table == 30
InitialTables == (2 :> 5) @@ (4 :> 3) @@ (6 :> 2)

\* result messages of the methods (the f-string arguments are kept apart in
\* the fields name and size of ret)
MsgEmptyQueue == "No hay clientes en la lista de espera."
MsgCalling == "Llamando a {name} para una mesa de {size} personas."
MsgNoTable == "No hay mesas disponibles para {name} (grupo de {size})."
MsgListEmpty == "La lista de espera esta vacia."
MsgCancelled == "Reservacion de {name} cancelada."
MsgNotFound == "No se encontro a {name} en la lista de espera."
MsgNone == ""

(* ---------------------------- state ------------------------------------ *)
VARIABLES
    head,     \* the linked list reached from self.head, head first
    tables,   \* self.tables: table size -> number of free tables
    nodes,    \* number of Node objects constructed so far
    ret,      \* what the last method call returned
    hist      \* the caller's record of the calls made so far (HistSpec only)

vars == <<head, tables, nodes, ret, hist>>

\* a Node: its three fields and its identity (the order of construction)
Node(client_name, party_size, reservation_time, id) ==
    [client_name |-> client_name, party_size |-> party_size,
     reservation_time |-> reservation_time, id |-> id]

\* the value a method returns, with the method that returned it; name and
\* size are the arguments of its message (for free_table, size is the
\* argument table_size)
Return(op, ok, msg, name, size, wait, clients) ==
    [op |-> op, ok |-> ok, msg |-> msg, name |-> name, size |-> size,
     wait |-> wait, clients |-> clients]

\* nothing was called yet: the nodes added, the identities of the nodes
\* removed by a successful call, the tables freed and assigned per size, and
\* the number of successful cancellations
HistInit ==
    [added |-> <<>>, removed |-> {},
     freed |-> [c \in DOMAIN InitialTables |-> 0],
     served |-> [c \in DOMAIN InitialTables |-> 0],
     cancelled |-> 0]

Init ==
    /\ head = <<>>
    /\ tables = InitialTables
    /\ nodes = 0
    /\ ret = Return("__init__", TRUE, MsgNone, "", 0, 0, <<>>)
    /\ hist = HistInit

(* ---------------------------- helpers ---------------------------------- *)
Min(S) == CHOOSE x \in S : \A y \in S : x <= y

Max(S) == CHOOSE x \in S : \A y \in S : y <= x

\* the keys in decreasing order
RECURSIVE SortedDesc(_)
SortedDesc(S) ==
    IF S = {} THEN <<>> ELSE <<Max(S)>> \o SortedDesc(S \ {Max(S)})

\* sorted(self.tables.keys()): the keys in increasing order
RECURSIVE Sorted(_)
Sorted(S) ==
    IF S = {} THEN <<>> ELSE <<Min(S)>> \o Sorted(S \ {Min(S)})

\* a scan that falls back to the largest size when none is large enough
RECURSIVE ScanSizesLargest(_, _)
ScanSizesLargest(sizes, party_size) ==
    IF sizes = <<>> THEN 0
    ELSE IF party_size <= Head(sizes) \/ Len(sizes) = 1 THEN Head(sizes)
    ELSE ScanSizesLargest(Tail(sizes), party_size)

\* the for loop of _find_suitable_table over the sorted sizes; 0 is None
RECURSIVE ScanSizes(_, _)
ScanSizes(sizes, party_size) ==
    IF sizes = <<>> THEN 0
    ELSE IF party_size <= Head(sizes) THEN Head(sizes)
    ELSE ScanSizes(Tail(sizes), party_size)

find_suitable_table(t, party_size) ==
    ScanSizes(Sorted(DOMAIN t), party_size)

\* a scan that goes on to the last node of that name
ScanCancelLast(q, i, client_name) ==
    IF \E j \in (i + 1)..Len(q) : q[j].client_name = client_name
    THEN Max({j \in (i + 1)..Len(q) : q[j].client_name = client_name}) - 1
    ELSE Len(q)

\* the while loop of cancel_reservation: starting with current at position
\* i, advance while current.next exists and has another name
RECURSIVE ScanCancel(_, _, _)
ScanCancel(q, i, client_name) ==
    IF i + 1 <= Len(q) /\ q[i + 1].client_name # client_name
    THEN ScanCancel(q, i + 1, client_name)
    ELSE i

\* an unlinking that puts the nodes behind position i in front of the others
Unlink_rotate(q, i) == SubSeq(q, i + 1, Len(q)) \o SubSeq(q, 1, i - 1)

\* the list without the node at position i
Unlink(q, i) == SubSeq(q, 1, i - 1) \o SubSeq(q, i + 1, Len(q))

(* ---------------------------- actions ---------------------------------- *)
\* an add_client that links the new node in front of the list
add_client_front(client_name, party_size, reservation_time) ==
    /\ Len(head) < MaxQueue
    /\ nodes < MaxNodes
    /\ nodes' = nodes + 1
    /\ head' = <<Node(client_name, party_size, reservation_time, nodes + 1)>> \o head
    /\ ret' = Return("add_client", TRUE, MsgNone, "", 0, 0, <<>>)
    /\ UNCHANGED tables

\* an add_client that holds a table for the new client at once
add_client_reserve(client_name, party_size, reservation_time) ==
    /\ Len(head) < MaxQueue
    /\ nodes < MaxNodes
    /\ nodes' = nodes + 1
    /\ head' = Append(head, Node(client_name, party_size, reservation_time, nodes + 1))
    /\ ret' = Return("add_client", TRUE, MsgNone, "", 0, 0, <<>>)
    /\ tables' = IF find_suitable_table(tables, party_size) # 0
                    /\ tables[find_suitable_table(tables, party_size)] > 0
                 THEN [tables EXCEPT ![find_suitable_table(tables, party_size)] = @ - 1]
                 ELSE tables

\* an add_client that turns away a party no table can hold
add_client_checked(client_name, party_size, reservation_time) ==
    /\ Len(head) < MaxQueue
    /\ nodes < MaxNodes
    /\ IF find_suitable_table(tables, party_size) # 0
       THEN /\ nodes' = nodes + 1
            /\ head' = Append(head, Node(client_name, party_size, reservation_time, nodes + 1))
            /\ ret' = Return("add_client", TRUE, MsgNone, "", 0, 0, <<>>)
       ELSE /\ ret' = Return("add_client", FALSE, MsgNone, "", 0, 0, <<>>)
            /\ UNCHANGED <<head, nodes>>
    /\ UNCHANGED tables

add_client(client_name, party_size, reservation_time) ==
    /\ Len(head) < MaxQueue
    /\ nodes < MaxNodes
    /\ nodes' = nodes + 1
    /\ head' = Append(head, Node(client_name, party_size, reservation_time, nodes + 1))
    /\ ret' = Return("add_client", TRUE, MsgNone, "", 0, 0, <<>>)
    /\ UNCHANGED tables

\* line 49: a table size was found and a table of that size is free
available_nocheck(t, table_size) == table_size # 0
available_last(t, table_size) == table_size # 0 /\ t[table_size] > 1
available(t, table_size) == table_size # 0 /\ t[table_size] > 0

\* lines 41-42: nobody is waiting
no_clients_seat ==
    /\ ret' = Return("call_next_table", FALSE, MsgEmptyQueue, "", 0, 0, <<>>)
    /\ tables' = [tables EXCEPT ![Min(DOMAIN tables)] = @ - 1]
    /\ UNCHANGED <<head, nodes>>
no_clients ==
    /\ ret' = Return("call_next_table", FALSE, MsgEmptyQueue, "", 0, 0, <<>>)
    /\ UNCHANGED <<head, tables, nodes>>

\* occupy a table of the smallest size, whatever size was found
seat_smallest(current, table_size) ==
    /\ tables' = [tables EXCEPT ![Min(DOMAIN tables)] = @ - 1]
    /\ head' = Tail(head)
    /\ ret' = Return("call_next_table", TRUE, MsgCalling,
                     current.client_name, table_size, 0, <<>>)
    /\ UNCHANGED nodes

\* occupy a table of table_size but leave the first node in the list
seat_keep(current, table_size) ==
    /\ tables' = [tables EXCEPT ![table_size] = @ - 1]
    /\ ret' = Return("call_next_table", TRUE, MsgCalling,
                     current.client_name, table_size, 0, <<>>)
    /\ UNCHANGED <<head, nodes>>

\* lines 50-53: occupy a table of table_size and unlink the first node
seat(current, table_size) ==
    /\ tables' = [tables EXCEPT ![table_size] = @ - 1]
    /\ head' = Tail(head)
    /\ ret' = Return("call_next_table", TRUE, MsgCalling,
                     current.client_name, table_size, 0, <<>>)
    /\ UNCHANGED nodes

\* lines 54-55: no table for the first node
no_table_drop(current) ==
    /\ ret' = Return("call_next_table", FALSE, MsgNoTable,
                     current.client_name, current.party_size, 0, <<>>)
    /\ head' = Tail(head)
    /\ UNCHANGED <<tables, nodes>>
no_table(current) ==
    /\ ret' = Return("call_next_table", FALSE, MsgNoTable,
                     current.client_name, current.party_size, 0, <<>>)
    /\ UNCHANGED <<head, tables, nodes>>

\* a call_next_table that looks past the first node for one it can seat
call_next_table_scan ==
    IF head = <<>>
    THEN no_clients
    ELSE LET ok(i) == available(tables, find_suitable_table(tables, head[i].party_size))
             can == {i \in 1..Len(head) : ok(i)}
         IN  IF can # {}
             THEN /\ tables' = [tables EXCEPT
                        ![find_suitable_table(tables, head[Min(can)].party_size)] = @ - 1]
                  /\ head' = Unlink(head, Min(can))
                  /\ ret' = Return("call_next_table", TRUE, MsgCalling,
                                   head[Min(can)].client_name,
                                   find_suitable_table(tables, head[Min(can)].party_size),
                                   0, <<>>)
                  /\ UNCHANGED nodes
             ELSE no_table(Head(head))

call_next_table ==
    IF head = <<>>
    THEN no_clients
    ELSE LET current == Head(head)
             table_size == find_suitable_table(tables, current.party_size)
         IN  IF available(tables, table_size)
             THEN seat(current, table_size)
             ELSE no_table(current)

\* a cancel_reservation whose scan stops one node early, so that a name that
\* is not in the list unlinks the last node
cancel_reservation_tail(client_name) ==
    IF head = <<>>
    THEN /\ ret' = Return("cancel_reservation", FALSE, MsgListEmpty, "", 0, 0, <<>>)
         /\ UNCHANGED <<head, tables, nodes>>
    ELSE IF head[1].client_name = client_name
    THEN /\ head' = Tail(head)
         /\ ret' = Return("cancel_reservation", TRUE, MsgCancelled, client_name, 0, 0, <<>>)
         /\ UNCHANGED <<tables, nodes>>
    ELSE LET current == ScanCancel(head, 1, client_name)
         IN  IF current + 1 <= Len(head)
             THEN /\ head' = Unlink(head, current + 1)
                  /\ ret' = Return("cancel_reservation", TRUE, MsgCancelled,
                                   client_name, 0, 0, <<>>)
                  /\ UNCHANGED <<tables, nodes>>
             ELSE /\ head' = Unlink(head, current)
                  /\ ret' = Return("cancel_reservation", FALSE, MsgNotFound,
                                   client_name, 0, 0, <<>>)
                  /\ UNCHANGED <<tables, nodes>>

cancel_reservation(client_name) ==
    IF head = <<>>
    THEN /\ ret' = Return("cancel_reservation", FALSE, MsgListEmpty, "", 0, 0, <<>>)
         /\ UNCHANGED <<head, tables, nodes>>
    ELSE IF head[1].client_name = client_name
    THEN /\ head' = Tail(head)
         /\ ret' = Return("cancel_reservation", TRUE, MsgCancelled, client_name, 0, 0, <<>>)
         /\ UNCHANGED <<tables, nodes>>
    ELSE LET current == ScanCancel(head, 1, client_name)
         IN  IF current + 1 <= Len(head)
             THEN /\ head' = Unlink(head, current + 1)
                  /\ ret' = Return("cancel_reservation", TRUE, MsgCancelled,
                                   client_name, 0, 0, <<>>)
                  /\ UNCHANGED <<tables, nodes>>
             ELSE /\ ret' = Return("cancel_reservation", FALSE, MsgNotFound,
                                   client_name, 0, 0, <<>>)
                  /\ UNCHANGED <<head, tables, nodes>>

\* a free_table that opens a count for a size it does not know
free_table_any(table_size) ==
    IF table_size \in DOMAIN tables
    THEN /\ tables[table_size] < InitialTables[table_size] + MaxExtraFree
         /\ tables' = [tables EXCEPT ![table_size] = @ + 1]
         /\ ret' = Return("free_table", TRUE, MsgNone, "", table_size, 0, <<>>)
         /\ UNCHANGED <<head, nodes>>
    ELSE /\ tables' = tables @@ (table_size :> 1)
         /\ ret' = Return("free_table", TRUE, MsgNone, "", table_size, 0, <<>>)
         /\ UNCHANGED <<head, nodes>>

\* a free_table that reports success without raising the count
free_table_noop(table_size) ==
    IF table_size \in DOMAIN tables
    THEN /\ tables[table_size] < InitialTables[table_size] + MaxExtraFree
         /\ ret' = Return("free_table", TRUE, MsgNone, "", table_size, 0, <<>>)
         /\ UNCHANGED <<head, tables, nodes>>
    ELSE /\ ret' = Return("free_table", FALSE, MsgNone, "", table_size, 0, <<>>)
         /\ UNCHANGED <<head, tables, nodes>>

free_table(table_size) ==
    IF table_size \in DOMAIN tables
    THEN /\ tables[table_size] < InitialTables[table_size] + MaxExtraFree
         /\ tables' = [tables EXCEPT ![table_size] = @ + 1]
         /\ ret' = Return("free_table", TRUE, MsgNone, "", table_size, 0, <<>>)
         /\ UNCHANGED <<head, nodes>>
    ELSE /\ ret' = Return("free_table", FALSE, MsgNone, "", table_size, 0, <<>>)
         /\ UNCHANGED <<head, tables, nodes>>

\* a count of the nodes whose party is strictly smaller
RECURSIVE CountWaitingStrict(_, _)
CountWaitingStrict(q, party_size) ==
    IF q = <<>> THEN 0
    ELSE (IF Head(q).party_size < party_size THEN 1 ELSE 0)
         + CountWaitingStrict(Tail(q), party_size)

\* the while loop of estimate_wait_time: the nodes whose party is not larger
RECURSIVE CountWaiting(_, _)
CountWaiting(q, party_size) ==
    IF q = <<>> THEN 0
    ELSE (IF Head(q).party_size <= party_size THEN 1 ELSE 0)
         + CountWaiting(Tail(q), party_size)

\* the wait time as computed, without the floor
Max0_none(wait_time) == wait_time

\* max(0, wait_time)
Max0(wait_time) == IF wait_time < 0 THEN 0 ELSE wait_time

\* the value estimate_wait_time returns
wait_time(q, t, party_size) ==
    LET count == CountWaiting(q, party_size)
        table_size == find_suitable_table(t, party_size)
    IN  Max0(IF table_size = 0 \/ t[table_size] = 0
             THEN count * wait_time_per_table
             ELSE (count - t[table_size]) * wait_time_per_table)

estimate_wait_time(party_size) ==
    /\ ret' = Return("estimate_wait_time", TRUE, MsgNone, "", party_size,
                     wait_time(head, tables, party_size), <<>>)
    /\ UNCHANGED <<head, tables, nodes>>

\* the list of dictionaries get_waitlist builds, first node first
RECURSIVE clients(_)
clients(q) ==
    IF q = <<>> THEN <<>>
    ELSE <<[name |-> Head(q).client_name, party_size |-> Head(q).party_size,
            time |-> Head(q).reservation_time]>> \o clients(Tail(q))

\* a get_waitlist that advances self.head itself while it walks the list
get_waitlist_consume ==
    /\ ret' = Return("get_waitlist", TRUE, MsgNone, "", 0, 0, clients(head))
    /\ head' = <<>>
    /\ UNCHANGED <<tables, nodes>>

get_waitlist ==
    /\ ret' = Return("get_waitlist", TRUE, MsgNone, "", 0, 0, clients(head))
    /\ UNCHANGED <<head, tables, nodes>>

AddClient ==
    /\ \E n \in Names, p \in PartySizes, t \in Times : add_client(n, p, t)
    /\ UNCHANGED hist
CallNextTable == call_next_table /\ UNCHANGED hist
CancelReservation ==
    /\ \E n \in Names : cancel_reservation(n)
    /\ UNCHANGED hist
FreeTable ==
    /\ \E s \in FreeSizes : free_table(s)
    /\ UNCHANGED hist
EstimateWaitTime ==
    /\ \E p \in QuerySizes : estimate_wait_time(p)
    /\ UNCHANGED hist
GetWaitlist == get_waitlist /\ UNCHANGED hist

Next ==
    \/ AddClient
    \/ CallNextTable
    \/ CancelReservation
    \/ FreeTable

Spec == Init /\ [][Next]_vars

\* The caller keeps calling call_next_table and free_table for every
\* configured size: a call of one of them that would change the state is not
\* put off for ever.  The caller adds at most FairMaxAdds clients and frees
\* a table of a size only while fewer than FairMaxFree of them are free.
FairAddClient ==
    /\ nodes < FairMaxAdds
    /\ AddClient

FairFree(c) ==
    /\ tables[c] < FairMaxFree
    /\ free_table(c)
    /\ UNCHANGED hist

FairFreeTable == \E c \in DOMAIN InitialTables : FairFree(c)

FairNext ==
    \/ FairAddClient
    \/ CallNextTable
    \/ CancelReservation
    \/ FairFreeTable

FairSpec ==
    /\ Init
    /\ [][FairNext]_vars
    /\ WF_vars(CallNextTable)
    /\ \A c \in DOMAIN InitialTables : WF_vars(FairFree(c))

\* The same calls with the caller keeping a record of them in hist: every
\* node handed to add_client, the identity of every node a successful
\* call_next_table or cancel_reservation took out of the list, the tables
\* freed and assigned per size and the successful cancellations.
Ids(q) == {q[i].id : i \in 1..Len(q)}

HistAddClient ==
    \E n \in Names, p \in PartySizes, t \in Times :
       /\ Len(hist.added) < HistMaxAdds
       /\ add_client(n, p, t)
       /\ hist' = [hist EXCEPT !.added = Append(@, Node(n, p, t, nodes + 1))]

HistCallNextTable ==
    /\ call_next_table
    /\ hist' = IF ret'.ok
               THEN [hist EXCEPT !.served[ret'.size] = @ + 1,
                                 !.removed = @ \cup (Ids(head) \ Ids(head'))]
               ELSE hist

HistCancelReservation ==
    \E n \in Names :
       /\ cancel_reservation(n)
       /\ hist' = IF ret'.ok
                  THEN [hist EXCEPT !.cancelled = @ + 1,
                                    !.removed = @ \cup (Ids(head) \ Ids(head'))]
                  ELSE hist

HistFreeTable ==
    \E s \in FreeSizes :
       /\ hist.freed[2] + hist.freed[4] + hist.freed[6] < HistMaxFrees
       /\ free_table(s)
       /\ hist' = IF s \in DOMAIN hist.freed
                  THEN [hist EXCEPT !.freed[s] = @ + 1]
                  ELSE hist

HistNext ==
    \/ HistAddClient
    \/ HistCallNextTable
    \/ HistCancelReservation
    \/ HistFreeTable

HistSpec == Init /\ [][HistNext]_vars

\* The read operations, applied to every list of at most MaxQueue nodes and
\* every inventory with counts up to MaxCount.
RECURSIVE Waitlists(_)
Waitlists(n) ==
    IF n = 0 THEN {<<>>}
    ELSE Waitlists(n - 1) \cup
         {Append(q, Node(c, p, t, n)) :
            q \in {w \in Waitlists(n - 1) : Len(w) = n - 1},
            c \in Names, p \in PartySizes, t \in Times}

ReadInit ==
    /\ head \in Waitlists(MaxQueue)
    /\ tables \in [DOMAIN InitialTables -> 0..MaxCount]
    /\ nodes = Len(head)
    /\ ret = Return("__init__", TRUE, MsgNone, "", 0, 0, <<>>)
    /\ hist = HistInit

ReadNext ==
    \/ EstimateWaitTime
    \/ GetWaitlist

ReadSpec == ReadInit /\ [][ReadNext]_vars

(* ---------------------------- properties ------------------------------- *)
\* the step just taken was a call of the method op
Called(op) == ret'.op = op
Served == Called("call_next_table") /\ ret'.ok

\* the configured table sizes that hold a party of p
Fitting(t, p) == {c \in DOMAIN t : c >= p}
\* the first node cannot be seated by the best-fit rule: no size fits, or no
\* table of the smallest fitting size is free
HeadBlocked(q, t) ==
    \/ Fitting(t, q[1].party_size) = {}
    \/ \E c \in Fitting(t, q[1].party_size) :
          /\ \A d \in Fitting(t, q[1].party_size) : c <= d
          /\ t[c] = 0
\* the positions of the nodes called n
Named(q, n) == {i \in 1..Len(q) : q[i].client_name = n}
\* q without its i-th node
RemoveAt(q, i) == [j \in 1..(Len(q) - 1) |-> IF j < i THEN q[j] ELSE q[j + 1]]
\* the nodes of q stand in the order in which they were created
ArrivalOrder(q) == \A i, j \in 1..Len(q) : i < j => q[i].id < q[j].id

\* C1: FIFO service order.  The waitlist is always in arrival order, and a
\* successful call_next_table names and removes its first node, which is the
\* earliest-added node still waiting.
C1_FifoOrder ==
    [][/\ ArrivalOrder(head')
       /\ Served =>
            /\ head # <<>>
            /\ ret'.name = head[1].client_name
            /\ \A i \in 1..Len(head) : head[1].id <= head[i].id
            /\ head' = RemoveAt(head, 1)]_vars

\* a client was called while two later arrivals stay in the list
C1_Witness ==
    /\ ret.op = "call_next_table" /\ ret.ok
    /\ Len(head) >= 2

\* C2: best fit.  A successful call_next_table assigns (names and occupies)
\* a configured size that is >= the party size of the first node, and no
\* smaller configured size is >= that party size.
C2_BestFit ==
    [][Served =>
         /\ ret'.size \in Fitting(tables, head[1].party_size)
         /\ \A c \in Fitting(tables, head[1].party_size) : ret'.size <= c
         /\ tables'[ret'.size] = tables[ret'.size] - 1]_vars

\* a party of 3 got a table of 4 although tables of 6 were free as well
C2_Witness ==
    /\ ret.op = "call_next_table" /\ ret.ok
    /\ ret.size = 4
    /\ tables[6] > 0

\* C3: with somebody waiting, call_next_table fails with the no-table message
\* when no size fits the first node or the smallest fitting size has no free
\* table, and then the list and the counts are as before.
C3_NoTableUnchanged ==
    [][(Called("call_next_table") /\ head # <<>> /\ HeadBlocked(head, tables)) =>
         /\ ~ret'.ok
         /\ ret'.msg = MsgNoTable
         /\ head' = head
         /\ tables' = tables]_vars

\* the call just failed because the smallest fitting size has no free table
C3_Witness ==
    /\ ret.op = "call_next_table" /\ ret.msg = MsgNoTable
    /\ head # <<>>
    /\ Fitting(tables, head[1].party_size) # {}
    /\ tables[Min(Fitting(tables, head[1].party_size))] = 0

\* C4 as stated: the no-table message is given only when no size fits the
\* first node or every fitting size has free count 0.
C4_OnlyWhenAllFittingOccupied ==
    [][(Called("call_next_table") /\ ret'.msg = MsgNoTable) =>
         /\ head # <<>>
         /\ \A c \in Fitting(tables, head[1].party_size) : tables[c] = 0]_vars

\* C4 amended: the no-table message is given only when no size fits the first
\* node or the smallest fitting size has free count 0 (larger fitting sizes
\* may have free tables).
C4_OnlyWhenBestFitOccupied ==
    [][(Called("call_next_table") /\ ret'.msg = MsgNoTable) =>
         /\ head # <<>>
         /\ HeadBlocked(head, tables)]_vars

\* the call failed for a party of 3 with no table of 4 but a free table of 6
C4_Witness ==
    /\ ret.op = "call_next_table" /\ ret.msg = MsgNoTable
    /\ head # <<>>
    /\ head[1].party_size = 3
    /\ tables[4] = 0
    /\ tables[6] > 0

\* C5: head-only policy.  call_next_table removes the first node or nobody;
\* when the first node cannot be seated it fails and the list is as before,
\* whatever the later nodes are.
C5_HeadOnly ==
    [][Called("call_next_table") =>
         /\ head' = head \/ (head # <<>> /\ head' = Tail(head))
         /\ ~ret'.ok => head' = head
         /\ (head # <<>> /\ HeadBlocked(head, tables)) => (~ret'.ok /\ head' = head)]_vars

\* the call failed on the first node while the second one could be seated
C5_Witness ==
    /\ ret.op = "call_next_table" /\ ~ret.ok
    /\ Len(head) >= 2
    /\ HeadBlocked(head, tables)
    /\ ~HeadBlocked(Tail(head), tables)

\* C6: no free count is ever negative.
C6_NonNegative == \A c \in DOMAIN tables : tables[c] >= 0

\* a call was refused at a free count of 0
C6_Witness ==
    /\ ret.op = "call_next_table" /\ ~ret.ok
    /\ \E c \in DOMAIN tables : tables[c] = 0

\* C7: cancel_reservation(n) with a node named n in the list succeeds and
\* removes the first such node only; the others keep their order.
C7_CancelFirst ==
    [][\A n \in Names :
         (Called("cancel_reservation") /\ ret'.name = n /\ Named(head, n) # {}) =>
            /\ ret'.ok
            /\ head' = RemoveAt(head, Min(Named(head, n)))
            /\ tables' = tables]_vars

\* a node that was not the first was cancelled and a later node of the same
\* name is still waiting
C7_Witness ==
    /\ ret.op = "cancel_reservation" /\ ret.ok
    /\ Len(head) >= 2
    /\ head[1].client_name # ret.name
    /\ head[2].client_name = ret.name

C9_EmptyQueue ==
    [][(Called("call_next_table") /\ head = <<>>) =>
         /\ ~ret'.ok
         /\ ret'.msg = MsgEmptyQueue
         /\ head' = <<>>
         /\ tables' = tables]_vars

\* the call found nobody waiting while the tables of 6 were all occupied
C9_Witness ==
    /\ ret.op = "call_next_table" /\ ret.msg = MsgEmptyQueue
    /\ head = <<>>
    /\ tables[6] = 0

\* C10: free_table(c) returns true and adds 1 to the count of c when c is a
\* configured size, and returns false and changes no count otherwise; the
\* configured sizes, the other counts and the list never change.
C10_FreeTable ==
    [][Called("free_table") =>
         /\ DOMAIN tables' = DOMAIN tables
         /\ ret'.ok = (ret'.size \in DOMAIN tables)
         /\ \A c \in DOMAIN tables :
               tables'[c] = tables[c] + (IF c = ret'.size THEN 1 ELSE 0)
         /\ head' = head]_vars

\* a table of 4 was freed beyond the initial count while somebody waits
C10_Witness ==
    /\ ret.op = "free_table" /\ ret.ok /\ ret.size = 4
    /\ tables[4] = InitialTables[4] + 1
    /\ head # <<>>

\* the estimate as the specification words it: count the waiting parties of
\* at most p people, take the smallest configured size that holds p
WaitingUpTo(q, p) == Cardinality({i \in 1..Len(q) : q[i].party_size <= p})
ExpectedWait(q, t, p) ==
    IF Fitting(t, p) = {} \/ t[Min(Fitting(t, p))] = 0
    THEN WaitingUpTo(q, p) * 30
    ELSE IF WaitingUpTo(q, p) - t[Min(Fitting(t, p))] > 0
         THEN (WaitingUpTo(q, p) - t[Min(Fitting(t, p))]) * 30
         ELSE 0

\* C11: estimate_wait_time(p) returns count * 30 when no configured size
\* holds p or the smallest such size has no free table, and otherwise
\* max(0, (count - free) * 30), count being the number of waiting parties of
\* at most p people.
C11_EstimateFormula ==
    [][Called("estimate_wait_time") =>
         ret'.wait = ExpectedWait(head, tables, ret'.size)]_vars

\* three parties of 3 wait for the one free table of 4: 60 minutes
C11_Witness ==
    /\ ret.op = "estimate_wait_time" /\ ret.size = 3
    /\ WaitingUpTo(head, 3) = 3
    /\ tables[4] = 1
    /\ ret.wait = 60

\* C12: estimate_wait_time never returns a negative number.
C12_WaitFloor == ret.op = "estimate_wait_time" => ret.wait >= 0

\* more free tables than waiting parties: the floor gives 0
C12_Witness ==
    /\ ret.op = "estimate_wait_time" /\ ret.wait = 0
    /\ Fitting(tables, ret.size) # {}
    /\ WaitingUpTo(head, ret.size) >= 1
    /\ tables[Min(Fitting(tables, ret.size))] > WaitingUpTo(head, ret.size)

\* C13: estimate_wait_time and get_waitlist leave the list and the counts as
\* they were, and get_waitlist returns the waiting clients in list order.
C13_ReadOnly ==
    [][(Called("estimate_wait_time") \/ Called("get_waitlist")) =>
         /\ head' = head
         /\ tables' = tables
         /\ Called("get_waitlist") =>
              /\ Len(ret'.clients) = Len(head)
              /\ \A i \in 1..Len(head) :
                    /\ ret'.clients[i].name = head[i].client_name
                    /\ ret'.clients[i].party_size = head[i].party_size
                    /\ ret'.clients[i].time = head[i].reservation_time]_vars

\* a snapshot of a list of three whose first and last entries differ
C13_Witness ==
    /\ ret.op = "get_waitlist"
    /\ Len(ret.clients) = 3 /\ Len(head) = 3
    /\ ret.clients[1] # ret.clients[3]

\* C14: add_client and cancel_reservation never change a free count; a count
\* changes only in call_next_table, downwards, and in free_table, upwards.
C14_InventoryFrame ==
    [][/\ (Called("add_client") \/ Called("cancel_reservation")) => tables' = tables
       /\ tables' # tables =>
            \/ Called("call_next_table") /\ \A c \in DOMAIN tables : tables'[c] <= tables[c]
            \/ Called("free_table") /\ \A c \in DOMAIN tables : tables'[c] >= tables[c]]_vars

\* a reservation was cancelled while tables were occupied
C14_Witness ==
    /\ ret.op = "cancel_reservation" /\ ret.ok
    /\ \E c \in DOMAIN tables : tables[c] < InitialTables[c]

\* C15: add_client succeeds and puts the new node at the tail: the new list
\* is the old one followed by the new node, whatever the party size.
C15_AppendAtTail ==
    [][Called("add_client") =>
         /\ ret'.ok
         /\ Len(head') = Len(head) + 1
         /\ \E n \in Names, p \in PartySizes, t \in Times :
               head' = head \o <<Node(n, p, t, nodes + 1)>>]_vars

\* a party of 7, larger than every table, joined behind two others
C15_Witness ==
    /\ ret.op = "add_client"
    /\ Len(head) = 3
    /\ head[3].party_size = 7
    /\ head[3].party_size > Max(DOMAIN tables)

\* C17: a successful call_next_table takes exactly one table of the assigned
\* size and removes exactly the first node, in one step: no step lowers a
\* count without being a call that removes the first node, and no call
\* removes a node without lowering a count.
C17_AtomicSeat ==
    [][/\ Served =>
            /\ ret'.size \in DOMAIN tables
            /\ \A c \in DOMAIN tables :
                  tables'[c] = tables[c] - (IF c = ret'.size THEN 1 ELSE 0)
            /\ head # <<>>
            /\ head' = Tail(head)
       /\ (\E c \in DOMAIN tables : tables'[c] < tables[c])
            <=> (Called("call_next_table") /\ head' # head)]_vars

\* the second table of 6 was assigned while somebody else still waits
C17_Witness ==
    /\ ret.op = "call_next_table" /\ ret.ok /\ ret.size = 6
    /\ tables[6] = 0
    /\ tables[4] = InitialTables[4]
    /\ head # <<>>

\* C18: a node whose party is larger than every configured size is never
\* seated: call_next_table fails while it is first, whatever was freed, and
\* it leaves the list only by a successful cancel_reservation of its name.
C18_NeverServed ==
    [][/\ Served => head[1].party_size <= Max(DOMAIN tables)
       /\ (Called("call_next_table") /\ head # <<>>
             /\ head[1].party_size > Max(DOMAIN tables)) =>
            (~ret'.ok /\ head' = head)
       /\ \A i \in 1..Len(head) :
            (/\ head[i].party_size > Max(DOMAIN tables)
             /\ \A j \in 1..Len(head') : head'[j].id # head[i].id) =>
               /\ Called("cancel_reservation")
               /\ ret'.ok
               /\ ret'.name = head[i].client_name]_vars

\* a party of 7 was refused although a table was freed beyond the initial
\* count of the largest size
C18_Witness ==
    /\ ret.op = "call_next_table" /\ ret.msg = MsgNoTable
    /\ head # <<>>
    /\ head[1].party_size = 7
    /\ tables[6] = InitialTables[6] + 1

\* the nodes of q whose identity is not in gone, in the order of q
RECURSIVE Surviving(_, _)
Surviving(q, gone) ==
    IF q = <<>> THEN <<>>
    ELSE (IF Head(q).id \in gone THEN <<>> ELSE <<Head(q)>>)
         \o Surviving(Tail(q), gone)

RECURSIVE Sum(_, _)
Sum(f, S) ==
    IF S = {} THEN 0
    ELSE LET x == CHOOSE y \in S : TRUE IN f[x] + Sum(f, S \ {x})

\* C16: queue integrity.  The list is always the sequence of all nodes ever
\* added, in arrival order, without the nodes that successful calls of
\* call_next_table and cancel_reservation removed: no removed node is in the
\* list and the others are all there, in their order.
C16_QueueIntegrity == head = Surviving(hist.added, hist.removed)

\* of three arrivals the first was seated and the second cancelled
C16_Witness ==
    /\ Len(hist.added) = 3
    /\ Len(head) = 1 /\ head[1].id = 3
    /\ hist.cancelled = 1
    /\ Sum(hist.served, DOMAIN hist.served) = 1

\* C19: conservation.  Each free count is its initial value plus the
\* free_table calls for that size minus the successful call_next_table calls
\* that assigned that size, and the length of the list is the number of
\* add_client calls minus the successful call_next_table and
\* cancel_reservation calls.
C19_Conservation ==
    /\ \A c \in DOMAIN tables :
          tables[c] = InitialTables[c] + hist.freed[c] - hist.served[c]
    /\ Len(head) = Len(hist.added) - Sum(hist.served, DOMAIN hist.served)
                     - hist.cancelled

\* tables of 4 were assigned and freed, and a reservation was cancelled
C19_Witness ==
    /\ hist.served[4] >= 1
    /\ hist.freed[4] >= 1
    /\ hist.cancelled >= 1
    /\ head # <<>>

\* every waiting party fits some configured size
AllServable == \A i \in 1..Len(head) : head[i].party_size <= Max(DOMAIN tables)

\* C20: progress.  When every waiting party fits some configured size and
\* call_next_table and free_table for each configured size keep being
\* called, every node now in the list is eventually out of it (seated or
\* cancelled).
C20_Progress ==
    \A id \in 1..FairMaxAdds :
       (id \in Ids(head) /\ AllServable) ~> (id \notin Ids(head))

\* the first of the waiting parties, which all fit a table, was refused because the
\* tables of its size are occupied
C20_Witness ==
    /\ ret.op = "call_next_table" /\ ret.msg = MsgNoTable
    /\ Len(head) >= 1
    /\ AllServable
    /\ HeadBlocked(head, tables)

====
